---- MODULE Spec2Model ----
(***************************************************************************)
(* Container inventory provider                                            *)
(* (source/code/providers/Container_ContainerInventory_Class_Provider.cpp) *)
(*                                                                         *)
(* ContainerQuery::QueryAll lists the containers of the host, inspects     *)
(* each one over the Docker remote API and turns every inspection document *)
(* into a Container_ContainerInventory_Class instance; the provider's      *)
(* entry points post the instances, or a status, to the caller's context.  *)
(*                                                                         *)
(* A cJSON object is a function from the keys it holds to its items; an    *)
(* item is a record tagged with its cJSON type.  A pointer is <<>> when it *)
(* is null and <<x>> when it points to x.  An instance is a record whose   *)
(* fields are <<>> while unset and <<v>> once set to v.                    *)
(***************************************************************************)
EXTENDS Integers, Sequences, FiniteSets, TLC

\* Longest identifier list the lister returns in the model.
MaxIds == 2

VARIABLES
    op,            \* entry point being served ("none" before the first call)
    pc,            \* position inside the entry point
    hostname,      \* QueryAll: string hostname
    containerIds,  \* QueryAll: vector<string> containerIds
    i,             \* QueryAll: loop counter
    result,        \* QueryAll: vector<Container_ContainerInventory_Class> result
    requests,      \* requests handed to the runtime transport during this call
    responses,     \* what getResponse returned for each inspection of this call
    log,           \* syslog lines written during this call
    posted         \* what the entry point posted to its Context

vars == <<op, pc, hostname, containerIds, i, result, requests, responses, log, posted>>

----------------------------------------------------------------------------
(* cJSON items *)

NULL == <<>>

JString(s) == [type |-> "String", valuestring |-> s]
JNumber(n) == [type |-> "Number", valueint |-> n]
JTrue      == [type |-> "True", valueint |-> 1]
JFalse     == [type |-> "False", valueint |-> 0]
JNull      == [type |-> "NULL"]
JArray(a)  == [type |-> "Array", child |-> a]
JObject(o) == [type |-> "Object", child |-> o]

\* cJSON_GetObjectItem: the item stored under the key, or a null pointer.
cJSON_GetObjectItem(object, key) ==
    IF key \in DOMAIN object.child THEN <<object.child[key]>> ELSE NULL

RECURSIVE JoinStrings(_)
JoinStrings(a) ==
    IF a = <<>> THEN ""
    ELSE "\"" \o Head(a) \o "\"" \o (IF Len(a) > 1 THEN "," ELSE "") \o JoinStrings(Tail(a))

\* cJSON_Print of the items the inventory serialises: JSON null, an array of
\* strings, an object without members.  The runtime always sends the keys
\* Env, Cmd, Links and PortBindings (as JSON null when it has nothing to
\* report), so the item printed is never a null pointer.
cJSON_Print(p) ==
    LET item == p[1] IN
    CASE item.type = "NULL"   -> "null"
      [] item.type = "Array"  -> "[" \o JoinStrings(item.child) \o "]"
      [] item.type = "Object" -> "{}"

----------------------------------------------------------------------------
(* Container_ContainerInventory_Class *)

Fields ==
    {"InstanceID", "ImageId", "CreatedTime", "ContainerHostname", "EnvironmentVar",
     "Command", "ComposeGroup", "ExitCode", "State", "Links", "Ports"}

\* A freshly constructed instance: no field set.
NewInstance == [f \in Fields |-> <<>>]

SetValue(instance, f, v) == [instance EXCEPT ![f] = <<v>>]

\* The running state of one InspectContainer call: the instance being filled,
\* the warnings written so far, and whether a null pointer has been
\* dereferenced (the process has faulted).
Start == [instance |-> NewInstance, log |-> <<>>, fault |-> FALSE]

Warn(st, fn, id) == [st EXCEPT !.log = Append(@, [fn |-> fn, id |-> id])]

Fault(st) == [st EXCEPT !.fault = TRUE]

----------------------------------------------------------------------------
(* ContainerQuery *)

\* restDockerInspect: the REST request that inspects container id.
restDockerInspect(id) == "GET /containers/" \o id \o "/json HTTP/1.1\r\n\r\n"

\* The id the sub-extractors name in their warnings:
\* cJSON_GetObjectItem(entry, "Id")->valuestring.
EntryId(entry) == cJSON_GetObjectItem(entry, "Id")[1].valuestring

\* Faulty variant of ObtainContainerConfig: a missing "Config" member is
\* passed over without a warning.
ObtainContainerConfigNoWarning(st, entry) ==
    LET config == cJSON_GetObjectItem(entry, "Config") IN
    IF config # NULL
    THEN LET host   == cJSON_GetObjectItem(config[1], "Hostname")
             labels == cJSON_GetObjectItem(config[1], "Labels")
         IN
         IF host = NULL THEN Fault(st)
         ELSE LET i1 == SetValue(st.instance, "ContainerHostname", host[1].valuestring)
                  i2 == SetValue(i1, "EnvironmentVar",
                                 cJSON_Print(cJSON_GetObjectItem(config[1], "Env")))
                  i3 == SetValue(i2, "Command",
                                 cJSON_Print(cJSON_GetObjectItem(config[1], "Cmd")))
                  groupName == IF labels # NULL
                               THEN cJSON_GetObjectItem(labels[1], "com.docker.compose.project")
                               ELSE NULL
                  i4 == IF labels # NULL /\ groupName # NULL
                        THEN SetValue(i3, "ComposeGroup", groupName[1].valuestring)
                        ELSE i3
              IN [st EXCEPT !.instance = i4]
    ELSE st

\* ObtainContainerConfig: hostname, environment, command and compose group
\* from the "Config" member of the inspection document.
ObtainContainerConfig(st, entry) ==
    LET config == cJSON_GetObjectItem(entry, "Config") IN
    IF config # NULL
    THEN LET host   == cJSON_GetObjectItem(config[1], "Hostname")
             labels == cJSON_GetObjectItem(config[1], "Labels")
         IN
         IF host = NULL THEN Fault(st)
         ELSE LET i1 == SetValue(st.instance, "ContainerHostname", host[1].valuestring)
                  i2 == SetValue(i1, "EnvironmentVar",
                                 cJSON_Print(cJSON_GetObjectItem(config[1], "Env")))
                  i3 == SetValue(i2, "Command",
                                 cJSON_Print(cJSON_GetObjectItem(config[1], "Cmd")))
                  groupName == IF labels # NULL
                               THEN cJSON_GetObjectItem(labels[1], "com.docker.compose.project")
                               ELSE NULL
                  i4 == IF labels # NULL /\ groupName # NULL
                        THEN SetValue(i3, "ComposeGroup", groupName[1].valuestring)
                        ELSE i3
              IN [st EXCEPT !.instance = i4]
    ELSE Warn(st, "ObtainContainerConfig", EntryId(entry))

\* Faulty variant of ObtainContainerState: the Running and Paused flags are
\* looked at before the exit code.
ObtainContainerStateFlagsFirst(st, entry, deadLoad) ==
    LET state == cJSON_GetObjectItem(entry, "State") IN
    IF state # NULL
    THEN LET ec      == cJSON_GetObjectItem(state[1], "ExitCode")
             running == cJSON_GetObjectItem(state[1], "Running")
             paused  == cJSON_GetObjectItem(state[1], "Paused")
             started == cJSON_GetObjectItem(state[1], "StartedAt")
             finished == cJSON_GetObjectItem(state[1], "FinishedAt")
         IN
         IF ec = NULL THEN Fault(st)
         ELSE LET exitCode == ec[1].valueint
                  i1 == SetValue(st.instance, "ExitCode", exitCode)
                  s1 == [st EXCEPT !.instance = i1]
                  s2 == IF running = NULL THEN Fault(s1)
                        ELSE IF running[1].valueint # 0
                        THEN [s1 EXCEPT !.instance = SetValue(i1, "State", "Running")]
                        ELSE IF paused = NULL THEN Fault(s1)
                        ELSE IF paused[1].valueint # 0
                        THEN [s1 EXCEPT !.instance = SetValue(i1, "State", "Paused")]
                        ELSE IF exitCode # 0
                        THEN [s1 EXCEPT !.instance = SetValue(i1, "State", "Failed")]
                        ELSE [s1 EXCEPT !.instance = SetValue(i1, "State", "Stopped")]
              IN IF s2.fault THEN s2
                 ELSE IF (started = NULL \/ finished = NULL) /\ deadLoad THEN Fault(s2)
                 ELSE s2
    ELSE Warn(st, "ObtainContainerState", EntryId(entry))

\* Faulty variant of ObtainContainerState: the closing else branch is
\* missing, so an exited container gets no state.
ObtainContainerStateNoStopped(st, entry, deadLoad) ==
    LET state == cJSON_GetObjectItem(entry, "State") IN
    IF state # NULL
    THEN LET ec      == cJSON_GetObjectItem(state[1], "ExitCode")
             running == cJSON_GetObjectItem(state[1], "Running")
             paused  == cJSON_GetObjectItem(state[1], "Paused")
             started == cJSON_GetObjectItem(state[1], "StartedAt")
             finished == cJSON_GetObjectItem(state[1], "FinishedAt")
         IN
         IF ec = NULL THEN Fault(st)
         ELSE LET exitCode == ec[1].valueint
                  i1 == SetValue(st.instance, "ExitCode", exitCode)
                  s1 == [st EXCEPT !.instance = i1]
                  s2 == IF exitCode # 0
                        THEN [s1 EXCEPT !.instance = SetValue(i1, "State", "Failed")]
                        ELSE IF running = NULL THEN Fault(s1)
                        ELSE IF running[1].valueint # 0
                        THEN [s1 EXCEPT !.instance = SetValue(i1, "State", "Running")]
                        ELSE IF paused = NULL THEN Fault(s1)
                        ELSE IF paused[1].valueint # 0
                        THEN [s1 EXCEPT !.instance = SetValue(i1, "State", "Paused")]
                        ELSE s1
              IN IF s2.fault THEN s2
                 ELSE IF (started = NULL \/ finished = NULL) /\ deadLoad THEN Fault(s2)
                 ELSE s2
    ELSE Warn(st, "ObtainContainerState", EntryId(entry))

\* ObtainContainerState: exit code and derived lifecycle state from the
\* "State" member.  The two closing statements read StartedAt and FinishedAt
\* and discard the value; when the key is missing that read goes through a
\* null pointer, and whether the build still performs it is deadLoad.
ObtainContainerState(st, entry, deadLoad) ==
    LET state == cJSON_GetObjectItem(entry, "State") IN
    IF state # NULL
    THEN LET ec      == cJSON_GetObjectItem(state[1], "ExitCode")
             running == cJSON_GetObjectItem(state[1], "Running")
             paused  == cJSON_GetObjectItem(state[1], "Paused")
             started == cJSON_GetObjectItem(state[1], "StartedAt")
             finished == cJSON_GetObjectItem(state[1], "FinishedAt")
         IN
         IF ec = NULL THEN Fault(st)
         ELSE LET exitCode == ec[1].valueint
                  i1 == SetValue(st.instance, "ExitCode", exitCode)
                  s1 == [st EXCEPT !.instance = i1]
                  s2 == IF exitCode # 0
                        THEN [s1 EXCEPT !.instance = SetValue(i1, "State", "Failed")]
                        ELSE IF running = NULL THEN Fault(s1)
                        ELSE IF running[1].valueint # 0
                        THEN [s1 EXCEPT !.instance = SetValue(i1, "State", "Running")]
                        ELSE IF paused = NULL THEN Fault(s1)
                        ELSE IF paused[1].valueint # 0
                        THEN [s1 EXCEPT !.instance = SetValue(i1, "State", "Paused")]
                        ELSE [s1 EXCEPT !.instance = SetValue(i1, "State", "Stopped")]
              IN IF s2.fault THEN s2
                 ELSE IF (started = NULL \/ finished = NULL) /\ deadLoad THEN Fault(s2)
                 ELSE s2
    ELSE Warn(st, "ObtainContainerState", EntryId(entry))

\* ObtainContainerHostConfig: links and port bindings from "HostConfig".
ObtainContainerHostConfig(st, entry) ==
    LET hostConfig == cJSON_GetObjectItem(entry, "HostConfig") IN
    IF hostConfig # NULL
    THEN LET i1 == SetValue(st.instance, "Links",
                            cJSON_Print(cJSON_GetObjectItem(hostConfig[1], "Links")))
             i2 == SetValue(i1, "Ports",
                            cJSON_Print(cJSON_GetObjectItem(hostConfig[1], "PortBindings")))
         IN [st EXCEPT !.instance = i2]
    ELSE Warn(st, "ObtainContainerHostConfig", EntryId(entry))

\* InspectContainer on the response getResponse gave for the request of id:
\* a vector that is empty or holds one document pointer.
InspectContainer(id, response, deadLoad) ==
    IF response # <<>> /\ response[1] # NULL
    THEN LET doc == response[1][1]
             pId      == cJSON_GetObjectItem(doc, "Id")
             pImage   == cJSON_GetObjectItem(doc, "Image")
             pCreated == cJSON_GetObjectItem(doc, "Created")
         IN
         IF pId = NULL THEN Fault(Start)
         ELSE IF pImage = NULL
         THEN Fault([Start EXCEPT !.instance = SetValue(@, "InstanceID", pId[1].valuestring)])
         ELSE IF pCreated = NULL
         THEN Fault([Start EXCEPT !.instance =
                        SetValue(SetValue(@, "InstanceID", pId[1].valuestring),
                                 "ImageId", pImage[1].valuestring)])
         ELSE LET i1 == SetValue(NewInstance, "InstanceID", pId[1].valuestring)
                  i2 == SetValue(i1, "ImageId", pImage[1].valuestring)
                  i3 == SetValue(i2, "CreatedTime", pCreated[1].valuestring)
                  s0 == [Start EXCEPT !.instance = i3]
                  s1 == ObtainContainerConfig(s0, doc)
                  s2 == IF s1.fault THEN s1 ELSE ObtainContainerState(s1, doc, deadLoad)
                  s3 == IF s2.fault THEN s2 ELSE ObtainContainerHostConfig(s2, doc)
              IN s3
    ELSE Warn(Start, "InspectContainer", id)

----------------------------------------------------------------------------
(* What the runtime may answer *)

\* Container identifiers the lister may report.
Ids == {"c1", "c2", "c3"}

\* listContainer(true): the identifiers of the containers of the host, each
\* once, at most MaxIds of them.
IdLists ==
    {s \in UNION {[1..n -> Ids] : n \in 0..MaxIds} :
        \A a, b \in DOMAIN s : a # b => s[a] # s[b]}

\* gethostname: the host's name, or "" when the call fails.
Hostnames == {"", "node1"}

\* The request listContainer(true) sends.
ListRequest == "GET /containers/json?all=1 HTTP/1.1\r\n\r\n"

Opt(key, p) == IF p = NULL THEN <<>> ELSE (key :> p[1])

TopLevel(id) ==
    ("Id" :> JString(id)) @@ ("Image" :> JString("img1")) @@ ("Created" :> JString("t0"))

ConfigWith(p) ==
    JObject(("Hostname" :> JString("h1")) @@ ("Env" :> JArray(<<"A=1", "B=2">>))
            @@ ("Cmd" :> JArray(<<"sh">>)) @@ Opt("Labels", p))

GroupLabels == JObject("com.docker.compose.project" :> JString("grp"))
OtherLabels == JObject("maintainer" :> JString("ops"))
Config == ConfigWith(<<GroupLabels>>)
ConfigNoHostname ==
    JObject(("Env" :> JNull) @@ ("Cmd" :> JNull) @@ ("Labels" :> GroupLabels))

StateWith(ec, running, paused, started, finished) ==
    JObject(Opt("ExitCode", ec) @@ Opt("Running", running) @@ Opt("Paused", paused)
            @@ Opt("StartedAt", started) @@ Opt("FinishedAt", finished))

Time == <<JString("t1")>>
StateOf(exitCode, running, paused) ==
    StateWith(<<JNumber(exitCode)>>, <<running>>, <<paused>>, Time, Time)

HostConfig == JObject(("Links" :> JNull) @@ ("PortBindings" :> JObject(<<>>)))

Document(top, config, state, hostConfig) ==
    JObject(top @@ Opt("Config", config) @@ Opt("State", state)
            @@ Opt("HostConfig", hostConfig))

RunningState == StateOf(0, JTrue, JFalse)

\* The inspection documents of the provider model: complete documents in each
\* lifecycle state, documents without one or all of the three members, a
\* document without the compose label, and documents that break the runtime's
\* contract (no Id, no Image, no Created, a Config without Hostname, a State
\* without timestamps).
Documents ==
    { Document(TopLevel("d1"), <<Config>>, <<RunningState>>, <<HostConfig>>),
      Document(TopLevel("d2"), <<Config>>, <<RunningState>>, <<HostConfig>>),
      Document(TopLevel("d1"), <<Config>>, <<StateOf(137, JTrue, JFalse)>>, <<HostConfig>>),
      Document(TopLevel("d1"), <<Config>>, <<StateOf(0, JFalse, JTrue)>>, <<HostConfig>>),
      Document(TopLevel("d1"), <<Config>>, <<StateOf(0, JFalse, JFalse)>>, <<HostConfig>>),
      Document(TopLevel("d2"), NULL, <<RunningState>>, <<HostConfig>>),
      Document(TopLevel("d1"), <<Config>>, NULL, <<HostConfig>>),
      Document(TopLevel("d1"), <<Config>>, <<RunningState>>, NULL),
      Document(TopLevel("d1"), NULL, NULL, NULL),
      Document(TopLevel("d1"), <<ConfigWith(<<OtherLabels>>)>>, <<RunningState>>, <<HostConfig>>),
      Document(("Image" :> JString("img1")) @@ ("Created" :> JString("t0")),
               <<Config>>, <<RunningState>>, <<HostConfig>>),
      Document(("Id" :> JString("d1")) @@ ("Created" :> JString("t0")),
               <<Config>>, <<RunningState>>, <<HostConfig>>),
      Document(("Id" :> JString("d1")) @@ ("Image" :> JString("img1")),
               <<Config>>, <<RunningState>>, <<HostConfig>>),
      Document(TopLevel("d1"), <<ConfigNoHostname>>, <<RunningState>>, <<HostConfig>>),
      Document(TopLevel("d1"), <<Config>>,
               <<StateWith(<<JNumber(0)>>, <<JTrue>>, <<JFalse>>, NULL, NULL)>>,
               <<HostConfig>>) }

\* getResponse for one request: no element, a null document, or a document.
Responses == {<<>>, <<NULL>>} \cup {<< <<d>> >> : d \in Documents}

\* The document of a response that holds one.
DocOf(response) == response[1][1]

HasDocument(response) == response # <<>> /\ response[1] # NULL

----------------------------------------------------------------------------
(* The provider *)

MI_RESULT_OK == [result |-> "MI_RESULT_OK"]
MI_RESULT_NOT_SUPPORTED == [result |-> "MI_RESULT_NOT_SUPPORTED"]

PostInstance(instance) == [instance |-> instance]

RECURSIVE PostAll(_)
PostAll(queryResult) ==
    IF queryResult = <<>> THEN <<>>
    ELSE <<PostInstance(Head(queryResult))>> \o PostAll(Tail(queryResult))

\* The provider serves one request at a time: an entry point is entered when
\* none is running.
Ready == pc \in {"idle", "done"}

Init ==
    /\ op = "none"
    /\ pc = "idle"
    /\ hostname = ""
    /\ containerIds = <<>>
    /\ i = 0
    /\ result = <<>>
    /\ requests = <<>>
    /\ responses = <<>>
    /\ log = <<>>
    /\ posted = <<>>

\* An entry point that posts one status and does nothing else.
PostOnly(name, status) ==
    /\ Ready
    /\ op' = name
    /\ pc' = "done"
    /\ posted' = <<status>>
    /\ hostname' = ""
    /\ containerIds' = <<>>
    /\ i' = 0
    /\ result' = <<>>
    /\ requests' = <<>>
    /\ responses' = <<>>
    /\ log' = <<>>

Load == PostOnly("Load", MI_RESULT_OK)

Unload == PostOnly("Unload", MI_RESULT_OK)

GetInstance == PostOnly("GetInstance", MI_RESULT_NOT_SUPPORTED)

CreateInstance == PostOnly("CreateInstance", MI_RESULT_NOT_SUPPORTED)

\* Faulty variant of ModifyInstance: the modification is reported as done.
ModifyInstanceAccepted == PostOnly("ModifyInstance", MI_RESULT_OK)

ModifyInstance == PostOnly("ModifyInstance", MI_RESULT_NOT_SUPPORTED)

DeleteInstance == PostOnly("DeleteInstance", MI_RESULT_NOT_SUPPORTED)

\* EnumerateInstances enters QueryAll: the log is opened, the host name is
\* resolved and the lister is asked for the identifiers.
QueryAllBegin ==
    /\ Ready
    /\ \E name \in Hostnames, ids \in IdLists :
          /\ hostname' = name
          /\ containerIds' = ids
    /\ op' = "EnumerateInstances"
    /\ pc' = "loop"
    /\ i' = 0
    /\ result' = <<>>
    /\ requests' = <<ListRequest>>
    /\ responses' = <<>>
    /\ log' = <<>>
    /\ posted' = <<>>

\* InspectContainer(containerIds[i]) hands its request to getResponse.
InspectSend ==
    /\ pc = "loop"
    /\ i < Len(containerIds)
    /\ requests' = Append(requests, restDockerInspect(containerIds[i + 1]))
    /\ pc' = "getResponse"
    /\ UNCHANGED <<op, hostname, containerIds, i, result, responses, log, posted>>

\* Faulty variant of InspectReceive: the new instance is put in front of
\* result instead of behind it.
InspectReceiveInFront ==
    /\ pc = "getResponse"
    /\ \E response \in Responses, deadLoad \in BOOLEAN :
          LET st == InspectContainer(containerIds[i + 1], response, deadLoad) IN
          /\ responses' = Append(responses, response)
          /\ log' = log \o st.log
          /\ IF st.fault
             THEN pc' = "crashed" /\ result' = result
             ELSE pc' = "stamp" /\ result' = <<st.instance>> \o result
    /\ UNCHANGED <<op, hostname, containerIds, i, requests, posted>>

\* Faulty variant of InspectReceive: a failed inspection ends the loop.
InspectReceiveStopsOnFailure ==
    /\ pc = "getResponse"
    /\ \E response \in Responses, deadLoad \in BOOLEAN :
          LET st == InspectContainer(containerIds[i + 1], response, deadLoad) IN
          /\ responses' = Append(responses, response)
          /\ log' = log \o st.log
          /\ IF st.fault
             THEN pc' = "crashed" /\ result' = result /\ i' = i
             ELSE IF HasDocument(response)
             THEN pc' = "stamp" /\ result' = Append(result, st.instance) /\ i' = i
             ELSE pc' = "loop" /\ result' = Append(result, st.instance)
                  /\ i' = Len(containerIds)
    /\ UNCHANGED <<op, hostname, containerIds, requests, posted>>

\* Faulty variant of InspectReceive: a failed inspection is tried again.
InspectReceiveRetries ==
    /\ pc = "getResponse"
    /\ \E response \in Responses, deadLoad \in BOOLEAN :
          LET st == InspectContainer(containerIds[i + 1], response, deadLoad) IN
          /\ log' = log \o st.log
          /\ IF st.fault
             THEN pc' = "crashed" /\ result' = result
                  /\ responses' = Append(responses, response)
             ELSE IF HasDocument(response)
             THEN pc' = "stamp" /\ result' = Append(result, st.instance)
                  /\ responses' = Append(responses, response)
             ELSE pc' = "loop" /\ result' = result /\ responses' = responses
    /\ UNCHANGED <<op, hostname, containerIds, i, requests, posted>>

\* getResponse returns; InspectContainer builds the instance and QueryAll
\* appends it to result.  A null pointer dereferenced on the way ends the
\* process.
InspectReceive ==
    /\ pc = "getResponse"
    /\ \E response \in Responses, deadLoad \in BOOLEAN :
          LET st == InspectContainer(containerIds[i + 1], response, deadLoad) IN
          /\ responses' = Append(responses, response)
          /\ log' = log \o st.log
          /\ IF st.fault
             THEN pc' = "crashed" /\ result' = result
             ELSE pc' = "stamp" /\ result' = Append(result, st.instance)
    /\ UNCHANGED <<op, hostname, containerIds, i, requests, posted>>

\* The position QueryAll stamps with the host name (from 0, as in the code).
StampIndex == Len(containerIds) - 1

\* result[containerIds.size() - 1].ImageId_value(hostname), the position
\* being an element of result.
StampElement ==
    /\ pc = "stamp"
    /\ StampIndex < Len(result)
    /\ result' = [result EXCEPT ![StampIndex + 1] = SetValue(@, "ImageId", hostname)]
    /\ i' = i + 1
    /\ pc' = "loop"
    /\ UNCHANGED <<op, hostname, containerIds, requests, responses, log, posted>>

\* The same statement with the position past the end of result: the write
\* goes through whatever lies behind the vector's elements.  Either it
\* touches no element of result and the loop goes on ...
StampPastEndSilent ==
    /\ pc = "stamp"
    /\ StampIndex >= Len(result)
    /\ i' = i + 1
    /\ pc' = "loop"
    /\ UNCHANGED <<op, hostname, containerIds, result, requests, responses, log, posted>>

\* ... or the process faults on it.
StampPastEndFault ==
    /\ pc = "stamp"
    /\ StampIndex >= Len(result)
    /\ pc' = "crashed"
    /\ UNCHANGED <<op, hostname, containerIds, i, result, requests, responses, log, posted>>

\* The loop ends, the log is closed and QueryAll returns result.
QueryAllReturn ==
    /\ pc = "loop"
    /\ ~(i < Len(containerIds))
    /\ pc' = "returned"
    /\ UNCHANGED <<op, hostname, containerIds, i, result, requests, responses, log, posted>>

\* Faulty variant of EnumerateInstances: an empty result is reported as a
\* failure.
EnumerateInstancesFailsWhenEmpty ==
    /\ pc = "returned"
    /\ posted' = IF result = <<>> THEN <<[result |-> "MI_RESULT_NOT_FOUND"]>>
                 ELSE PostAll(result) \o <<MI_RESULT_OK>>
    /\ pc' = "done"
    /\ UNCHANGED <<op, hostname, containerIds, i, result, requests, responses, log>>

\* EnumerateInstances posts every instance of queryResult, then the status.
EnumerateInstances ==
    /\ pc = "returned"
    /\ posted' = PostAll(result) \o <<MI_RESULT_OK>>
    /\ pc' = "done"
    /\ UNCHANGED <<op, hostname, containerIds, i, result, requests, responses, log>>

Next ==
    \/ Load
    \/ Unload
    \/ GetInstance
    \/ CreateInstance
    \/ ModifyInstance
    \/ DeleteInstance
    \/ QueryAllBegin
    \/ InspectSend
    \/ InspectReceive
    \/ StampElement
    \/ StampPastEndSilent
    \/ StampPastEndFault
    \/ QueryAllReturn
    \/ EnumerateInstances

Spec == Init /\ [][Next]_vars

----------------------------------------------------------------------------
(* ObtainContainerState on its own *)

ExitCodes == {-1, 0, 1, 137}
Flags == {NULL, <<JTrue>>, <<JFalse>>}
Times == {NULL, Time}

\* Every "State" member over the exit codes, flags and timestamps above,
\* each key present or missing.
StateMembers ==
    {StateWith(ec, running, paused, started, finished) :
        ec \in {NULL} \cup {<<JNumber(n)>> : n \in ExitCodes},
        running \in Flags, paused \in Flags, started \in Times, finished \in Times}

\* The documents ObtainContainerState is applied to: with each of the State
\* members, and with none.
StateEntries ==
    {Document(TopLevel("d1"), <<Config>>, state, <<HostConfig>>) :
        state \in {NULL} \cup {<<m>> : m \in StateMembers}}

\* The entry is held in responses, the resulting instance in result.
InitState ==
    /\ op = "ObtainContainerState"
    /\ pc = "call"
    /\ responses \in {<< << <<entry>> >> >> : entry \in StateEntries}
    /\ hostname = ""
    /\ containerIds = <<>>
    /\ i = 0
    /\ result = <<>>
    /\ requests = <<>>
    /\ log = <<>>
    /\ posted = <<>>

ApplyObtainContainerState ==
    /\ pc = "call"
    /\ \E deadLoad \in BOOLEAN :
          LET st == ObtainContainerState(Start, DocOf(responses[1]), deadLoad) IN
          /\ log' = st.log
          /\ IF st.fault
             THEN pc' = "crashed" /\ result' = result
             ELSE pc' = "done" /\ result' = <<st.instance>>
    /\ UNCHANGED <<op, hostname, containerIds, i, requests, responses, posted>>

NextState == ApplyObtainContainerState

SpecState == InitState /\ [][NextState]_vars

----------------------------------------------------------------------------
(* Properties *)

\* QueryAll has returned its result to EnumerateInstances.
Returned == op = "EnumerateInstances" /\ pc \in {"returned", "done"}

\* Every response received so far holds a document.
AllSucceeded == \A k \in 1..Len(responses) : HasDocument(responses[k])

\* The response for position k holds a document without the member.
Lacks(k, member) ==
    HasDocument(responses[k]) /\ cJSON_GetObjectItem(DocOf(responses[k]), member) = NULL

\* The ids named by the warnings of fn, in the order they were written.
RECURSIVE WarnIds(_, _)
WarnIds(lines, fn) ==
    IF lines = <<>> THEN <<>>
    ELSE (IF Head(lines).fn = fn THEN <<Head(lines).id>> ELSE <<>>) \o WarnIds(Tail(lines), fn)

\* The document ids of the first n responses that lack the member, in order.
RECURSIVE MissingIds(_, _)
MissingIds(member, n) ==
    IF n = 0 THEN <<>>
    ELSE MissingIds(member, n - 1)
         \o (IF Lacks(n, member) THEN <<EntryId(DocOf(responses[n]))>> ELSE <<>>)

\* The requested ids of the first n responses that hold no document, in order.
RECURSIVE NullIds(_)
NullIds(n) ==
    IF n = 0 THEN <<>>
    ELSE NullIds(n - 1) \o (IF HasDocument(responses[n]) THEN <<>> ELSE <<containerIds[n]>>)

LifecycleStates == {"Running", "Paused", "Stopped", "Failed"}

\* C1: after QueryAll returns, every record of the returned set has its
\* ImageId equal to the host name resolved at the start of the collection.
C1_EveryRecordStamped ==
    Returned => \A k \in 1..Len(result) : result[k].ImageId = <<hostname>>

\* C10: whenever QueryAll stamps, the position it stamps is less than the
\* number of records appended to result so far.
C10_StampWithinResult ==
    (op = "EnumerateInstances" /\ pc = "stamp") => StampIndex < Len(result)

\* C2: when every inspection succeeds, the records of result are, position by
\* position, those of the documents returned for the identifiers in list
\* order (InstanceID of record k is the Id of the document answered to the
\* request for identifier k), and the set QueryAll returns has exactly one
\* record per identifier.
C2_OrderPreserved ==
    (op = "EnumerateInstances" /\ AllSucceeded) =>
        /\ Len(result) <= Len(containerIds)
        /\ \A k \in 1..Len(result) :
              /\ requests[k + 1] = restDockerInspect(containerIds[k])
              /\ result[k].InstanceID = <<EntryId(DocOf(responses[k]))>>
        /\ Returned => Len(result) = Len(containerIds)

C2_Witness ==
    /\ Returned
    /\ AllSucceeded
    /\ Len(containerIds) = 2
    /\ Len(result) = 2
    /\ result[1].InstanceID = <<"d2">>
    /\ result[2].InstanceID = <<"d1">>

\* The flag is present and true.
IsTrue(p) == p # NULL /\ p[1].type = "True"

\* C3: with the State member present, the derived state follows a fixed
\* order over every combination of ExitCode, Running and Paused: a non-zero
\* ExitCode gives Failed whatever the flags, otherwise a true Running gives
\* Running, otherwise a true Paused gives Paused, otherwise Stopped; and the
\* instance's ExitCode is the value read.
C3_StateDerivation ==
    LET state == cJSON_GetObjectItem(DocOf(responses[1]), "State") IN
    (op = "ObtainContainerState" /\ pc = "done" /\ state # NULL) =>
        LET exitCode == state[1].child["ExitCode"].valueint
            running  == IsTrue(cJSON_GetObjectItem(state[1], "Running"))
            paused   == IsTrue(cJSON_GetObjectItem(state[1], "Paused"))
            derived  == result[1].State
        IN /\ result[1].ExitCode = <<exitCode>>
           /\ exitCode # 0 => derived = <<"Failed">>
           /\ (exitCode = 0 /\ running) => derived = <<"Running">>
           /\ (exitCode = 0 /\ ~running /\ paused) => derived = <<"Paused">>
           /\ (exitCode = 0 /\ ~running /\ ~paused) => derived = <<"Stopped">>

C3_Witness ==
    /\ op = "ObtainContainerState"
    /\ pc = "done"
    /\ cJSON_GetObjectItem(DocOf(responses[1]), "State")
          = <<StateOf(137, JTrue, JFalse)>>
    /\ result[1].State = <<"Failed">>
    /\ result[1].ExitCode = <<137>>

\* C4 as stated: in every record of every set QueryAll returns, State is one
\* of Running, Paused, Stopped, Failed, whatever the transport returned.
C4_StateAlwaysSet ==
    Returned => \A k \in 1..Len(result) : result[k].State \in {<<v>> : v \in LifecycleStates}

\* C4 as amended: in every record of every set QueryAll returns, State is one
\* of the four values when the response inspected for that record held a
\* document with a State member, and is unset otherwise.
C4_StateSetWhenPresent ==
    Returned =>
        \A k \in 1..Len(result) :
            IF HasDocument(responses[k]) /\ ~Lacks(k, "State")
            THEN result[k].State \in {<<v>> : v \in LifecycleStates}
            ELSE result[k].State = <<>>

C4_Witness ==
    /\ Returned
    /\ Len(result) = 2
    /\ Lacks(1, "State")
    /\ result[1].State = <<>>
    /\ result[2].State = <<"Stopped">>

\* The fields each sub-extractor owns, and those it always sets when its
\* member is present (ComposeGroup is set only when the label is there).
Owned(member) ==
    CASE member = "Config" -> {"ContainerHostname", "EnvironmentVar", "Command", "ComposeGroup"}
      [] member = "State" -> {"ExitCode", "State"}
      [] member = "HostConfig" -> {"Links", "Ports"}

Extractor(member) == "ObtainContainer" \o member

\* C5: for a document that lacks Config, State or HostConfig, one warning of
\* that member's extractor names the document's container id, the fields the
\* extractor owns stay unset, the fields of the extractors whose member is
\* present are set, and the set QueryAll returns still has one record per
\* identifier.
C5_MissingMember ==
    op = "EnumerateInstances" =>
        /\ \A k \in 1..Len(result) : \A member \in {"Config", "State", "HostConfig"} :
              HasDocument(responses[k]) =>
                 IF Lacks(k, member)
                 THEN \A f \in Owned(member) : result[k][f] = <<>>
                 ELSE \A f \in Owned(member) \ {"ComposeGroup"} : result[k][f] # <<>>
        /\ Len(responses) = Len(result) =>
              \A member \in {"Config", "State", "HostConfig"} :
                 WarnIds(log, Extractor(member)) = MissingIds(member, Len(result))
        /\ Returned => Len(result) = Len(containerIds)

C5_Witness ==
    /\ Returned
    /\ Len(containerIds) = 2
    /\ Lacks(1, "Config")
    /\ ~Lacks(1, "State")
    /\ result[1].ContainerHostname = <<>>
    /\ result[1].State = <<"Running">>
    /\ result[1].Ports # <<>>
    /\ log = <<[fn |-> "ObtainContainerConfig", id |-> "d2"]>>
    /\ Len(result) = 2
    /\ result[2].ContainerHostname = <<"h1">>

\* C6: for an empty response or a null document InspectContainer writes one
\* warning naming the requested id, runs no sub-extractor and returns an
\* instance with no field set; QueryAll goes on, so the set it returns holds
\* one record per identifier.
C6_NullDocument ==
    op = "EnumerateInstances" =>
        /\ \A k \in 1..Len(result) : ~HasDocument(responses[k]) =>
              /\ \A f \in Fields \ {"ImageId"} : result[k][f] = <<>>
              /\ result[k].ImageId \in {<<>>, <<hostname>>}
        /\ (pc = "stamp" /\ ~HasDocument(responses[Len(result)])) =>
              result[Len(result)] = NewInstance
        /\ Len(responses) = Len(result) =>
              /\ WarnIds(log, "InspectContainer") = NullIds(Len(result))
              /\ Len(log) = Len(NullIds(Len(result)))
                            + Len(MissingIds("Config", Len(result)))
                            + Len(MissingIds("State", Len(result)))
                            + Len(MissingIds("HostConfig", Len(result)))
        /\ Returned => Len(result) = Len(containerIds)

C6_Witness ==
    /\ Returned
    /\ Len(containerIds) = 2
    /\ responses[1] = <<NULL>>
    /\ HasDocument(responses[2])
    /\ Len(result) = 2
    /\ result[1].InstanceID = <<>>
    /\ result[2].InstanceID = <<"d1">>
    /\ log = <<[fn |-> "InspectContainer", id |-> containerIds[1]]>>

\* C7: in one collection pass the listing request comes first and once; the
\* inspection requests follow, one per identifier in list order, none sent
\* twice, each sent only when every earlier response has become a record;
\* when QueryAll returns, every identifier has been requested.
C7_OneRequestPerIdentifier ==
    op = "EnumerateInstances" =>
        /\ requests[1] = ListRequest
        /\ Len(requests) - 1 <= Len(containerIds)
        /\ \A k \in 2..Len(requests) : requests[k] = restDockerInspect(containerIds[k - 1])
        /\ \A j, k \in 1..Len(requests) : j # k => requests[j] # requests[k]
        /\ pc = "getResponse" => Len(requests) - 1 = Len(result) + 1
        /\ pc \in {"loop", "stamp", "returned", "done"} => Len(requests) - 1 = Len(result)
        /\ pc = "crashed" => Len(requests) - 1 \in {Len(result), Len(result) + 1}
        /\ Returned => Len(requests) - 1 = Len(containerIds)

C7_Witness ==
    /\ Returned
    /\ Len(containerIds) = 2
    /\ responses[1] = <<>>
    /\ requests = <<ListRequest, restDockerInspect(containerIds[1]),
                    restDockerInspect(containerIds[2])>>

\* C8: with an empty identifier list QueryAll returns an empty set, sends no
\* inspection request and writes no warning, and EnumerateInstances posts no
\* record and then the success status.
C8_EmptyList ==
    (op = "EnumerateInstances" /\ containerIds = <<>>) =>
        /\ pc \in {"loop", "returned", "done"}
        /\ result = <<>>
        /\ requests = <<ListRequest>>
        /\ log = <<>>
        /\ posted = IF pc = "done" THEN <<MI_RESULT_OK>> ELSE <<>>

C8_Witness ==
    /\ op = "EnumerateInstances"
    /\ containerIds = <<>>
    /\ pc = "done"
    /\ posted = <<MI_RESULT_OK>>

\* A request that only reads from the runtime.
IsRead(request) == SubSeq(request, 1, 4) = "GET "

\* C9: CreateInstance, ModifyInstance and DeleteInstance each post exactly
\* one result, the not-supported status, post no record and send nothing to
\* the runtime; only EnumerateInstances sends requests, and only reads.
C9_WritesRejected ==
    /\ op \in {"CreateInstance", "ModifyInstance", "DeleteInstance"} =>
          /\ pc = "done"
          /\ posted = <<MI_RESULT_NOT_SUPPORTED>>
          /\ requests = <<>>
    /\ requests # <<>> =>
          /\ op = "EnumerateInstances"
          /\ \A k \in 1..Len(requests) : IsRead(requests[k])

C9_Witness ==
    /\ op = "ModifyInstance"
    /\ pc = "done"
    /\ posted = <<MI_RESULT_NOT_SUPPORTED>>

====
